---- MODULE Spec2Model ----
(***************************************************************************)
(* The per-instance update-coordination state machine of connectAdvanced   *)
(* (src/src/components/connectAdvanced.js): store resolution, the          *)
(* subscription node of each connected instance, the change-detection      *)
(* callback checkForUpdates, the render-time computation of the child      *)
(* props, the post-commit effect captureWrapperProps and the               *)
(* (re-)subscription effect subscribeUpdates with its teardown.            *)
(*                                                                         *)
(* The collaborators are modelled by their contracts: the store (a state   *)
(* and an ordered list of listeners), the Subscription class (a node with  *)
(* a parent, one callback slot and an ordered list of nested listeners),   *)
(* the selector (a pure function of store state and owner props that may   *)
(* throw) and the rendering framework (render, commit with its layout      *)
(* effects, unmount).  A notification loop is kept as a frame on a stack,  *)
(* so that the states between two listener calls of one loop are states of *)
(* the model.                                                              *)
(***************************************************************************)
EXTENDS Integers, Sequences, FiniteSets, TLC

\* ---------------------------------------------------------------- bounds
MaxState == 2   \* the store states on which the selector succeeds: 0..MaxState
NumErr   == 2   \* the store states on which it throws: MaxState+1..MaxState+NumErr
MaxProps == 1   \* identities of the owner props objects: 0..MaxProps
MaxNodes == 2   \* Subscription objects one instance may have alive at a time

\* ------------------------------------------------------------- universes
Inst      == {1, 2, 3}
Stores    == {"S1", "S2"}
NoStore   == "none"
NoNode    == <<0, 0>>
Nodes     == Inst \X (1..MaxNodes)
OkStates  == 0..MaxState
ErrStates == (MaxState + 1)..(MaxState + NumErr)
States    == OkStates \cup ErrStates
Props     == 0..MaxProps

\* JS undefined / null in a ref that holds child props
Undefined == <<>>
\* no error: the `error` of a payload or of lastThrownError when nothing was thrown
NoErr     == 0
\* the reducer state before any dispatch, [null, 0]: no previousStateUpdateResult
NullPayload == 0 - 1
\* no update queued for the reducer
NoUpdate  == 0 - 2
\* no context value (no Provider above)
NoCtx     == <<NoStore, NoNode>>
\* the error of a render that finds no store in the props or the context
NoStoreErr == 0 - 3

VARIABLES
  cfg,         \* the tree and the options of each wrapper, fixed at construction
  storeState,  \* store.getState() of each store
  storeSubs,   \* the listeners of each store, in registration order
  nodes,       \* the Subscription objects, each with the closure of its effect
  mounted,     \* the instances committed and not unmounted
  props,       \* the props the owner passes to each instance
  hooks,       \* the committed hook state of each instance
  refs,        \* the four refs of each instance
  queue,       \* the update queued for each instance's reducer
  wip,         \* the render of each instance that awaits its commit
  stack,       \* the notification loops in progress, innermost first
  selHist,     \* the value each instance's selector returned last
  ev           \* what the last step did

vars == <<cfg, storeState, storeSubs, nodes, mounted, props, hooks, refs,
          queue, wip, stack, selHist, ev>>

\* ------------------------------------------------------------- sequences
RECURSIVE Remove(_, _)
Remove(s, x) ==
  IF s = <<>> THEN <<>>
  ELSE IF Head(s) = x THEN Tail(s)
  ELSE <<Head(s)>> \o Remove(Tail(s), x)

Range(s) == {s[k] : k \in 1..Len(s)}

\* ------------------------------------------------------------- selector
\* The part of the store state instance i's wrapped component reads.
View(i, s) == IF i = 1 THEN s % 2 ELSE s

\* childPropsSelector(state, wrapperProps) of instance i on store st: the
\* selector memoizes, so equal results are the same reference.
Throws(s) == s > MaxState
Selector(i, st, s, wp) == <<st, View(i, s), wp>>

\* ------------------------------------------------------------ the world
\* The objects an operation of the code may change, threaded through its
\* calls; tr collects what the operation did.
NoTrace == [read |-> FALSE, sel |-> FALSE, caught |-> NoErr, req |-> 0,
            casc |-> 0, inert |-> FALSE, same |-> FALSE, eq |-> FALSE,
            capt |-> FALSE, early |-> FALSE, pass |-> 0, overlap |-> FALSE,
            tdown |-> 0, tthrew |-> NoErr]

World == [nd |-> nodes, ss |-> storeSubs, rf |-> refs, qu |-> queue,
          sk |-> stack, sh |-> selHist, tr |-> NoTrace]

FreshNode == [store |-> NoStore, parent |-> NoNode, slot |-> FALSE,
              attached |-> FALSE, listeners |-> <<>>, unsub |-> FALSE,
              err |-> NoErr, made |-> FALSE]

\* ---------------------------------------------------------- Subscription
\* trySubscribe(): attach to the parent node, or to the store when there is
\* none; a second call changes nothing.
TrySubscribe(w, n) ==
  IF w.nd[n].attached THEN w
  ELSE IF w.nd[n].parent = NoNode
       THEN [w EXCEPT !.nd[n].attached = TRUE,
                      !.ss[w.nd[n].store] = Append(@, n)]
       ELSE [w EXCEPT !.nd[n].attached = TRUE,
                      !.nd[w.nd[n].parent].listeners = Append(@, n)]

\* tryUnsubscribe(): detach and drop the nested listeners; a second call
\* changes nothing.
TryUnsubscribe(w, n) ==
  IF ~w.nd[n].attached THEN w
  ELSE LET w1 == IF w.nd[n].parent = NoNode
                 THEN [w EXCEPT !.ss[w.nd[n].store] = Remove(@, n)]
                 ELSE [w EXCEPT !.nd[w.nd[n].parent].listeners = Remove(@, n)]
       IN [w1 EXCEPT !.nd[n].attached = FALSE, !.nd[n].listeners = <<>>]

\* A notification loop over the listeners registered when it starts.
Frame(via, st, ls) == [via |-> via, st |-> st, rest |-> ls, started |-> FALSE]

Push(w, via, st, ls) ==
  IF ls = <<>> THEN w ELSE [w EXCEPT !.sk = <<Frame(via, st, ls)>> \o @]

\* notifyNestedSubs(): call every nested listener, in registration order.
NotifyNestedSubs(w, n) ==
  IF n = NoNode THEN w
  ELSE Push([w EXCEPT !.tr.casc = @ + 1,
                      !.tr.early = \/ @
                                   \/ w.rf[n[1]].sched
                                   \/ w.rf[n[1]].cpfsu # Undefined],
            n, w.nd[n].store, w.nd[n].listeners)

\* ---------------------------------------------------------------- React
\* forceComponentUpdateDispatch(action): the action is queued for the
\* reducer and a render of the instance is requested.
ForceComponentUpdateDispatch(w, i, payload) ==
  [w EXCEPT !.qu[i] = payload, !.tr.req = @ + 1]

\* storeStateUpdatesReducer: the payload of the action replaces the previous
\* one (the update count is never read).
StoreStateUpdatesReducer(payload, action) == action

\* -------------------------------------------------------- checkForUpdates
\* A changed pass that does not set the flag of the scheduled render.
CheckChangedUnflagged(w, n, newChildProps, error) ==
  LET i  == n[1]
      w1 == [w EXCEPT !.rf[i].lcp   = newChildProps,
                      !.rf[i].cpfsu = newChildProps]
  IN ForceComponentUpdateDispatch(w1, i, error)

CheckChanged(w, n, newChildProps, error) ==
  LET i  == n[1]
      w1 == [w EXCEPT !.rf[i].lcp   = newChildProps,
                      !.rf[i].cpfsu = newChildProps,
                      !.rf[i].sched = TRUE]
  IN ForceComponentUpdateDispatch(w1, i, error)

\* A pass that cascades whether or not a render is scheduled.
CascadeAlways(w, n) == NotifyNestedSubs(w, n)

CheckUnchanged(w, n) ==
  IF ~w.rf[n[1]].sched THEN NotifyNestedSubs(w, n) ELSE w

\* A callback that does not look at didUnsubscribe.
UnguardedCheckForUpdates(w, n) ==
  LET i   == n[1]
      st  == w.nd[n].store
      latestStoreState == storeState[st]
      error == IF Throws(latestStoreState) THEN latestStoreState ELSE NoErr
      newChildProps ==
        IF error # NoErr THEN Undefined
        ELSE Selector(i, st, latestStoreState, w.rf[i].lwp)
      w1 == [w EXCEPT !.tr.read = TRUE, !.tr.sel = TRUE,
                      !.tr.caught = error,
                      !.nd[n].err = error,
                      !.sh[i] = newChildProps]
  IN IF newChildProps = w.rf[i].lcp
     THEN CheckUnchanged(w1, n)
     ELSE CheckChanged(w1, n, newChildProps, error)

CheckForUpdates(w, n) ==
  IF w.nd[n].unsub
  THEN [w EXCEPT !.tr.inert = TRUE]
  ELSE
    LET i   == n[1]
        st  == w.nd[n].store
        latestStoreState == storeState[st]
        error == IF Throws(latestStoreState) THEN latestStoreState ELSE NoErr
        newChildProps ==
          IF error # NoErr THEN Undefined
          ELSE Selector(i, st, latestStoreState, w.rf[i].lwp)
        w1 == [w EXCEPT !.tr.read = TRUE, !.tr.sel = TRUE,
                        !.tr.pass = @ + 1,
                        !.tr.caught = error,
                        !.tr.same = (newChildProps = w.sh[i]),
                        !.tr.eq = (newChildProps = w.rf[i].lcp),
                        !.nd[n].err = error,
                        !.sh[i] = newChildProps]
    IN IF newChildProps = w.rf[i].lcp
       THEN CheckUnchanged(w1, n)
       ELSE CheckChanged(w1, n, newChildProps, error)

\* ------------------------------------------------------ subscribeUpdates
\* The teardown the effect returns.  It raises the latched error after its
\* state effects; threw reports it.
UnsubscribeThrows(w, n) == w.nd[n].err

\* A teardown that leaves the callback in the slot of the node.
TeardownKeepingSlot(w, n) ==
  LET w1 == [w EXCEPT !.nd[n].unsub = TRUE]
      w2 == TryUnsubscribe(w1, n)
  IN [w2 EXCEPT !.tr.tdown = @ + 1,
                !.tr.tthrew = IF UnsubscribeThrows(w, n) # NoErr
                              THEN UnsubscribeThrows(w, n) ELSE @]

\* A teardown that notifies the nested listeners before it detaches.
TeardownNotifying(w, n) ==
  LET w0 == NotifyNestedSubs(w, n)
      w1 == [w0 EXCEPT !.nd[n].unsub = TRUE]
      w2 == TryUnsubscribe(w1, n)
  IN [w2 EXCEPT !.nd[n].slot = FALSE,
                !.tr.tdown = @ + 1,
                !.tr.tthrew = IF UnsubscribeThrows(w, n) # NoErr
                              THEN UnsubscribeThrows(w, n) ELSE @]

\* A teardown that leaves the node attached.
TeardownWithoutDetach(w, n) ==
  [w EXCEPT !.nd[n].unsub = TRUE, !.nd[n].slot = FALSE,
            !.tr.tdown = @ + 1,
            !.tr.tthrew = IF UnsubscribeThrows(w, n) # NoErr
                          THEN UnsubscribeThrows(w, n) ELSE @]

\* A teardown that raises the latched error before its state effects.
TeardownRaisingFirst(w, n) ==
  IF UnsubscribeThrows(w, n) # NoErr
  THEN [w EXCEPT !.tr.tdown = @ + 1,
                 !.tr.tthrew = UnsubscribeThrows(w, n)]
  ELSE LET w1 == [w EXCEPT !.nd[n].unsub = TRUE]
           w2 == TryUnsubscribe(w1, n)
       IN [w2 EXCEPT !.nd[n].slot = FALSE, !.tr.tdown = @ + 1]

UnsubscribeWrapper(w, n) ==
  LET w1 == [w EXCEPT !.nd[n].unsub = TRUE]
      w2 == TryUnsubscribe(w1, n)
  IN [w2 EXCEPT !.nd[n].slot = FALSE,
                !.tr.tdown = @ + 1,
                !.tr.tthrew = IF UnsubscribeThrows(w, n) # NoErr
                              THEN UnsubscribeThrows(w, n) ELSE @]

\* A subscription that waits for the next notification.
SubscribeWithoutPass(w, i, n) ==
  IF ~cfg.handles[i] THEN w
  ELSE TrySubscribe([w EXCEPT !.nd[n].slot = TRUE], n)

\* overlap: another node of the instance still has its callback or is
\* attached when this one is installed.
SubscribeUpdates(w, i, n) ==
  IF ~cfg.handles[i] THEN w
  ELSE LET w1 == [w EXCEPT !.nd[n].slot = TRUE,
                           !.tr.overlap =
                             \E m \in Nodes :
                               /\ m # n /\ m[1] = i
                               /\ w.nd[m].attached \/ w.nd[m].slot]
           w2 == TrySubscribe(w1, n)
       IN CheckForUpdates(w2, n)

\* --------------------------------------------------- captureWrapperProps
\* A capture that cascades before it clears the flag and the pending value.
CaptureCascadingFirst(w, i, wrapperProps, actualChildProps, n) ==
  LET w0 == IF w.rf[i].cpfsu # Undefined
            THEN NotifyNestedSubs([w EXCEPT !.tr.capt = TRUE], n)
            ELSE w
  IN [w0 EXCEPT !.rf[i].lwp   = wrapperProps,
                !.rf[i].lcp   = actualChildProps,
                !.rf[i].sched = FALSE,
                !.rf[i].cpfsu = Undefined]

\* A capture that never cascades.
CaptureWithoutCascade(w, i, wrapperProps, actualChildProps, n) ==
  [w EXCEPT !.rf[i].lwp   = wrapperProps,
            !.rf[i].lcp   = actualChildProps,
            !.rf[i].sched = FALSE,
            !.rf[i].cpfsu = Undefined]

CaptureWrapperProps(w, i, wrapperProps, actualChildProps, n) ==
  LET w1 == [w EXCEPT !.rf[i].lwp   = wrapperProps,
                      !.rf[i].lcp   = actualChildProps,
                      !.rf[i].sched = FALSE]
  IN IF w.rf[i].cpfsu # Undefined
     THEN NotifyNestedSubs([w1 EXCEPT !.rf[i].cpfsu = Undefined,
                                      !.tr.capt = TRUE], n)
     ELSE w1

\* ------------------------------------------------------- ConnectFunction
IsStore(x) == x \in Stores

\* The context value the nearest Provider above instance i holds.
PropStore(i, wp) == cfg.pstore[i][wp]

\* Below an instance that is being rendered it is the value of that render.
CtxFor(i) ==
  IF cfg.parentOf[i] = 0 THEN cfg.rootCtx
  ELSE IF wip[cfg.parentOf[i]].on THEN wip[cfg.parentOf[i]].h.out
  ELSE hooks[cfg.parentOf[i]].out

DidStoreComeFromProps(p) == IsStore(p)
DidStoreComeFromContext(ctx) == ctx # NoCtx /\ ctx[1] # NoStore

\* The store of a render: the one in the props if there is one, else the
\* one of the context; NoStore when the render fails for lack of a store.
\* A resolution that prefers the store of the context.
ContextFirstStore(p, ctx) ==
  IF DidStoreComeFromContext(ctx) THEN ctx[1]
  ELSE IF DidStoreComeFromProps(p) THEN p
  ELSE NoStore

ResolveStore(p, ctx) ==
  IF DidStoreComeFromProps(p) THEN p
  ELSE IF DidStoreComeFromContext(ctx) THEN ctx[1]
  ELSE NoStore

\* The parent of a new Subscription.
\* A parent that is the node of the context whatever the source of the store.
AmbientParentSub(p, ctx) == ctx[2]

ParentSub(p, ctx) == IF DidStoreComeFromProps(p) THEN NoNode ELSE ctx[2]

\* overriddenContextValue
\* A context value that always carries the instance's own store.
OwnStoreContextValue(p, ctx, sub) ==
  <<IF DidStoreComeFromProps(p) THEN p ELSE ctx[1], sub>>

\* A context value that always carries the instance's own node.
OwnNodeContextValue(p, ctx, sub) == <<ctx[1], sub>>

OverriddenContextValue(p, ctx, sub) ==
  IF DidStoreComeFromProps(p) THEN ctx ELSE <<ctx[1], sub>>

\* renderedChild: the context value the descendants read.
\* A rendered child that is always wrapped in a context provider.
AlwaysProvidedCtx(i, p, ctx, sub) == OverriddenContextValue(p, ctx, sub)

RenderedChildCtx(i, p, ctx, sub) ==
  IF cfg.handles[i] THEN OverriddenContextValue(p, ctx, sub) ELSE ctx

\* actualChildProps, given the store state read in this render.
\* Child props that reuse the pending value whatever the wrapper props.
PendingWhateverProps(i, st, wp, r) ==
  IF r.cpfsu # Undefined THEN r.cpfsu
  ELSE Selector(i, st, storeState[st], wp)

ActualChildProps(i, st, wp, r) ==
  IF r.cpfsu # Undefined /\ wp = r.lwp
  THEN r.cpfsu
  ELSE Selector(i, st, storeState[st], wp)

\* Whether computing actualChildProps calls the selector, and whether that
\* call throws.
RenderSelects(wp, r) == ~(r.cpfsu # Undefined /\ wp = r.lwp)
RenderSelectThrows(st, wp, r) == RenderSelects(wp, r) /\ Throws(storeState[st])

\* ------------------------------------------------------- instance state
InitHooks == [store |-> NoStore, fromProps |-> FALSE, ctx |-> NoCtx,
              sub |-> NoNode, wp |-> 0, payload |-> NullPayload,
              acp |-> Undefined, out |-> NoCtx]

\* useRef(), useRef(wrapperProps), useRef(), useRef(false)
InitRefs(wp) == [lcp |-> Undefined, lwp |-> wp, cpfsu |-> Undefined,
                 sched |-> FALSE]

NoWip == [on |-> FALSE, mount |-> FALSE, resub |-> FALSE, h |-> InitHooks]

\* An instance and the instances rendered below it.
RECURSIVE Below(_, _)
Below(a, j) ==
  IF j = 0 THEN FALSE
  ELSE IF j = a THEN TRUE
  ELSE Below(a, cfg.parentOf[j])

Subtree(i) == {j \in Inst : Below(i, j)}

Min(S) == CHOOSE x \in S : \A y \in S : x <= y

\* The framework renders, commits and changes props, and the store is
\* dispatched to, when no notification loop is in progress.
CanAct == stack = <<>>

\* A listener may have an instance unmounted between two listener calls of
\* the loop that is running.
CanUnmount ==
  IF stack = <<>> THEN TRUE ELSE cfg.reentrant /\ Head(stack).started

\* The nodes something still refers to; the others are garbage.
Live(nd, ss, hk, wp_, sk) ==
  {hk[j].sub : j \in Inst} \cup {hk[j].ctx[2] : j \in Inst}
    \cup {hk[j].out[2] : j \in Inst}
    \cup {wp_[j].h.sub : j \in Inst} \cup {wp_[j].h.ctx[2] : j \in Inst}
    \cup UNION {Range(ss[st]) : st \in Stores}
    \cup UNION {Range(nd[n].listeners) : n \in Nodes}
    \cup UNION {Range(sk[k].rest) \cup {sk[k].via} : k \in 1..Len(sk)}

Collect(nd, ss, hk, wp_, sk) ==
  [n \in Nodes |-> IF n \in Live(nd, ss, hk, wp_, sk) THEN nd[n] ELSE FreshNode]

FreeNodes(i) == {k \in 1..MaxNodes : ~nodes[<<i, k>>].made}

Event(op, i, n, via, st, stale, threw, tr) ==
  [op |-> op, i |-> i, n |-> n, via |-> via, st |-> st, stale |-> stale,
   threw |-> threw, tr |-> tr]

\* The world and the instance state after an operation, written back.
\* (The world is bound once, so that it is computed once.)
WriteBack(world, hk, wp_, mt) ==
  \E w \in {world} :
    /\ storeSubs' = w.ss
    /\ refs' = w.rf
    /\ queue' = w.qu
    /\ stack' = w.sk
    /\ selHist' = w.sh
    /\ hooks' = hk
    /\ wip' = wp_
    /\ mounted' = mt
    /\ nodes' = Collect(w.nd, w.ss, hk, wp_, w.sk)

\* The teardowns of the effects of the instances in S, parents first.
RECURSIVE TeardownAll(_, _)
TeardownAll(w, S) ==
  IF S = {} THEN w
  ELSE LET j == Min(S)
       IN TeardownAll(IF mounted[j] /\ hooks[j].sub # NoNode
                      THEN UnsubscribeWrapper(w, hooks[j].sub)
                      ELSE w,
                      S \ {j})

\* The instances in S are removed from the tree: their effects are torn
\* down and their hook state, refs and pending work are dropped.
RemoveTree(S, op, i, threw) ==
  LET w0 == TeardownAll(World, S)
      w  == [w0 EXCEPT !.rf = [j \in Inst |-> IF j \in S THEN InitRefs(0) ELSE @[j]],
                       !.qu = [j \in Inst |-> IF j \in S THEN NoUpdate ELSE @[j]],
                       !.sh = [j \in Inst |-> IF j \in S THEN Undefined ELSE @[j]]]
  IN /\ WriteBack(w,
                  [j \in Inst |-> IF j \in S THEN InitHooks ELSE hooks[j]],
                  [j \in Inst |-> IF j \in S THEN NoWip ELSE wip[j]],
                  [j \in Inst |-> IF j \in S THEN FALSE ELSE mounted[j]])
     /\ ev' = Event(op, i, hooks[i].sub, NoNode, NoStore, FALSE, threw, w.tr)

\* ---------------------------------------------------------------- store
\* store.dispatch: the state changes and the listeners registered now are
\* called one after the other.
StoreDispatch(st, s) ==
  /\ CanAct
  /\ storeState' = [storeState EXCEPT ![st] = s]
  /\ WriteBack(Push(World, NoNode, st, storeSubs[st]), hooks, wip, mounted)
  /\ ev' = Event("dispatch", 0, NoNode, NoNode, st, FALSE, NoErr, NoTrace)
  /\ UNCHANGED <<cfg, props>>

\* The next listener call of the innermost loop: the node's
\* handleChangeWrapper calls the callback in its slot.  A callback read from
\* the slot before the teardown emptied it may still be called.
Calls(n) ==
  IF nodes[n].slot THEN {TRUE}
  ELSE IF nodes[n].unsub THEN {TRUE, FALSE}
  ELSE {FALSE}

Deliver ==
  /\ stack # <<>>
  /\ LET f    == Head(stack)
         n    == Head(f.rest)
         rest == Tail(f.rest)
         sk1  == IF rest = <<>> THEN Tail(stack)
                 ELSE <<[f EXCEPT !.rest = rest, !.started = TRUE]>> \o Tail(stack)
         w0   == [World EXCEPT !.sk = sk1]
     IN \E call \in Calls(n) :
          \E w \in {IF call THEN CheckForUpdates(w0, n) ELSE w0} :
             /\ WriteBack(w, hooks, wip, mounted)
             /\ ev' = Event(IF call THEN "check" ELSE "skip", n[1], n, f.via,
                            f.st, nodes[n].unsub, NoErr, w.tr)
  /\ UNCHANGED <<cfg, storeState, props>>

\* ---------------------------------------------------------------- owner
\* The owner renders the instance with another props object.
SetProps(i, wp) ==
  /\ CanAct
  /\ i \in cfg.present
  /\ wp # props[i]
  /\ props' = [props EXCEPT ![i] = wp]
  /\ ev' = Event("props", i, NoNode, NoNode, NoStore, FALSE, NoErr, NoTrace)
  /\ UNCHANGED <<cfg, storeState, storeSubs, nodes, mounted, hooks, refs,
                 queue, wip, stack, selHist>>

\* The owner stops rendering the instance.
Unmount(i) ==
  /\ CanUnmount
  /\ mounted[i]
  /\ RemoveTree(Subtree(i), "unmount", i, NoErr)
  /\ UNCHANGED <<cfg, storeState, props>>

\* --------------------------------------------------------------- render
ParentMounted(i) ==
  IF cfg.parentOf[i] = 0 THEN TRUE ELSE mounted[cfg.parentOf[i]]

NeedsRender(i) ==
  \/ ~mounted[i]
  \/ queue[i] # NoUpdate
  \/ props[i] # hooks[i].wp
  \/ CtxFor(i) # hooks[i].ctx

\* The body of ConnectFunction.  A render that throws is discarded and the
\* framework removes the instance's subtree.
Render(i) ==
  /\ CanAct
  /\ i \in cfg.present
  /\ ParentMounted(i)
  /\ ~wip[i].on
  /\ NeedsRender(i)
  /\ LET mount     == ~mounted[i]
         h         == hooks[i]
         wp        == props[i]
         p         == PropStore(i, wp)
         ctx       == CtxFor(i)
         st        == ResolveStore(p, ctx)
         fromProps == DidStoreComeFromProps(p)
         payload   == IF queue[i] = NoUpdate THEN h.payload
                      ELSE StoreStateUpdatesReducer(h.payload, queue[i])
         subDeps   == mount \/ st # h.store \/ fromProps # h.fromProps
                            \/ ctx # h.ctx
         r         == IF mount THEN InitRefs(wp) ELSE refs[i]
         recompute == \/ ~cfg.pure[i]
                      \/ mount \/ st # h.store \/ queue[i] # NoUpdate
                      \/ wp # h.wp
         threw     == IF st = NoStore THEN NoStoreErr
                      ELSE IF payload > NoErr THEN payload
                      ELSE IF recompute /\ RenderSelectThrows(st, wp, r)
                           THEN storeState[st]
                      ELSE NoErr
     IN IF threw # NoErr
        THEN RemoveTree(IF mount THEN {} ELSE Subtree(i), "render", i, threw)
        ELSE
          /\ IF cfg.handles[i] /\ subDeps THEN FreeNodes(i) # {} ELSE TRUE
          /\ LET n   == IF ~cfg.handles[i] THEN NoNode
                        ELSE IF subDeps THEN <<i, Min(FreeNodes(i))>>
                        ELSE h.sub
                 acp == IF recompute THEN ActualChildProps(i, st, wp, r)
                        ELSE h.acp
                 selects == recompute /\ RenderSelects(wp, r)
                 h1  == [store |-> st, fromProps |-> fromProps, ctx |-> ctx,
                         sub |-> n, wp |-> wp, payload |-> payload,
                         acp |-> acp,
                         out |-> RenderedChildCtx(i, p, ctx, n)]
                 w0  == [World EXCEPT !.rf[i] = r, !.qu[i] = NoUpdate,
                                      !.sh[i] = IF selects THEN acp ELSE @,
                                      !.tr.read = selects, !.tr.sel = selects]
                 w   == IF cfg.handles[i] /\ subDeps
                        THEN [w0 EXCEPT !.nd[n] =
                                [FreshNode EXCEPT !.made = TRUE, !.store = st,
                                                  !.parent = ParentSub(p, ctx)]]
                        ELSE w0
             IN /\ WriteBack(w, hooks,
                             [wip EXCEPT ![i] =
                                [on |-> TRUE, mount |-> mount,
                                 resub |-> mount \/ st # h.store \/ n # h.sub,
                                 h |-> h1]],
                             mounted)
                /\ ev' = Event("render", i, n, NoNode, st, FALSE, NoErr, w.tr)
  /\ UNCHANGED <<cfg, storeState, props>>

\* --------------------------------------------------------------- commit
\* The render is applied, after the renders of the instances below that read
\* a new context value, and its layout effects run: the teardown of the
\* previous subscription effect when its dependencies changed, then
\* captureWrapperProps, then subscribeUpdates.  A teardown that raises makes
\* the framework remove the instance's subtree.
Commit(i) ==
  /\ CanAct
  /\ wip[i].on
  /\ \A j \in Inst : IF cfg.parentOf[j] = i THEN ~wip[j].on ELSE TRUE
  /\ \A j \in Inst : IF cfg.parentOf[j] = i /\ mounted[j]
                     THEN hooks[j].ctx = wip[i].h.out ELSE TRUE
  /\ LET x   == wip[i]
         h1  == x.h
         old == hooks[i].sub
     IN \E w0 \in {IF x.resub /\ mounted[i] /\ old # NoNode
                    THEN UnsubscribeWrapper(World, old) ELSE World} :
        \E w1 \in {CaptureWrapperProps(w0, i, h1.wp, h1.acp, h1.sub)} :
        \E w2 \in {IF x.resub THEN SubscribeUpdates(w1, i, h1.sub)
                    ELSE w1} :
          IF w0.tr.tthrew # NoErr
          THEN RemoveTree(Subtree(i), "commit", i, w0.tr.tthrew)
          ELSE /\ WriteBack(w2, [hooks EXCEPT ![i] = h1],
                            [wip EXCEPT ![i] = NoWip],
                            [mounted EXCEPT ![i] = TRUE])
               /\ ev' = Event("commit", i, h1.sub, NoNode, h1.store, FALSE,
                              NoErr, w2.tr)
  /\ UNCHANGED <<cfg, storeState, props>>

\* ----------------------------------------------------------------- init
InitWith(c) ==
  /\ cfg = c
  /\ storeState = [st \in Stores |-> 0]
  /\ storeSubs = [st \in Stores |-> <<>>]
  /\ nodes = [n \in Nodes |-> FreshNode]
  /\ mounted = [i \in Inst |-> FALSE]
  /\ props = [i \in Inst |-> 0]
  /\ hooks = [i \in Inst |-> InitHooks]
  /\ refs = [i \in Inst |-> InitRefs(0)]
  /\ queue = [i \in Inst |-> NoUpdate]
  /\ wip = [i \in Inst |-> NoWip]
  /\ stack = <<>>
  /\ selHist = [i \in Inst |-> Undefined]
  /\ ev = Event("init", 0, NoNode, NoNode, NoStore, FALSE, NoErr, NoTrace)

\* A Provider of store S1 above the tree; its context value carries no
\* parent subscription.
RootCtx == <<"S1", NoNode>>

\* Two instances, the second rendered by the first, both reading the store
\* of the context.
ChainCfg ==
  [present |-> {1, 2}, parentOf |-> [i \in Inst |-> i - 1],
   handles |-> [i \in Inst |-> TRUE], pure |-> [i \in Inst |-> FALSE],
   pstore |-> [i \in Inst |-> [wp \in Props |-> NoStore]],
   rootCtx |-> RootCtx, reentrant |-> FALSE]

Init == InitWith(ChainCfg)

Next ==
  \/ \E s \in OkStates : StoreDispatch("S1", s)
  \/ Deliver
  \/ \E i \in Inst : Render(i)
  \/ \E i \in Inst : Commit(i)

Spec == Init /\ [][Next]_vars

\* Three instances in a chain: 1 and 3 take the store from the context,
\* 2 is given store S2 as a prop.
IsoCfg ==
  [ChainCfg EXCEPT !.present = {1, 2, 3},
                   !.pstore[2] = [wp \in Props |-> "S2"]]

IsoStates == {0, 1}

InitIso == InitWith(IsoCfg)

NextIso ==
  \/ \E s \in IsoStates : StoreDispatch("S1", s)
  \/ StoreDispatch("S2", 1)
  \/ Deliver
  \/ \E i \in Inst : Render(i)
  \/ \E i \in Inst : Commit(i)

SpecIso == InitIso /\ [][NextIso]_vars

\* One instance on the store of the context, pure or not; the store also
\* takes states on which the selector throws, the owner changes the props
\* and the instance is unmounted.
OneCfg(b) ==
  [ChainCfg EXCEPT !.present = {1}, !.pure = [i \in Inst |-> b]]

InitOne == \E b \in BOOLEAN : InitWith(OneCfg(b))

NextOne ==
  \/ \E s \in States : StoreDispatch("S1", s)
  \/ Deliver
  \/ \E wp \in Props : SetProps(1, wp)
  \/ Render(1)
  \/ Commit(1)
  \/ Unmount(1)

SpecOne == InitOne /\ [][NextOne]_vars

\* Instances 2 and 3 both rendered by instance 1, all on the store of the
\* context; listeners act while a notification loop is running.
FanCfg ==
  [ChainCfg EXCEPT !.present = {1, 2, 3},
                   !.parentOf = [i \in Inst |-> IF i = 1 THEN 0 ELSE 1],
                   !.reentrant = TRUE]

InitFan == InitWith(FanCfg)

NextFan ==
  \/ \E s \in IsoStates : StoreDispatch("S1", s)
  \/ Deliver
  \/ \E i \in Inst : Render(i)
  \/ \E i \in Inst : Commit(i)
  \/ \E i \in Inst : Unmount(i)

SpecFan == InitFan /\ [][NextFan]_vars

\* A chain of three whose middle instance does not handle state changes.
PassCfg ==
  [ChainCfg EXCEPT !.present = {1, 2, 3},
                   !.handles = [i \in Inst |-> i # 2]]

InitPass == InitWith(PassCfg)

NextPass ==
  \/ \E s \in IsoStates : StoreDispatch("S1", s)
  \/ Deliver
  \/ \E wp \in Props : SetProps(2, wp)
  \/ \E i \in Inst : Render(i)
  \/ \E i \in Inst : Commit(i)

SpecPass == InitPass /\ [][NextPass]_vars

\* One instance that is given store S2 as a prop by the props object 1,
\* nothing by the props object 0 and a value that is not a store by any
\* other; it is rendered below a Provider of S1 or below none.
PlainValue == "plain"

ResCfg(c) ==
  [ChainCfg EXCEPT !.present = {1}, !.rootCtx = c,
                   !.pstore[1] = [wp \in Props |->
                                    IF wp = 1 THEN "S2"
                                    ELSE IF wp = 0 THEN NoStore
                                    ELSE PlainValue]]

InitRes == \E c \in {RootCtx, NoCtx} : InitWith(ResCfg(c))

NextRes ==
  \/ \E st \in Stores : \E s \in IsoStates : StoreDispatch(st, s)
  \/ Deliver
  \/ \E wp \in Props : SetProps(1, wp)
  \/ Render(1)
  \/ Commit(1)
  \/ Unmount(1)

SpecRes == InitRes /\ [][NextRes]_vars

\* The chain of two on a store that also takes states on which the
\* selectors throw.
NextErr ==
  \/ \E s \in States : StoreDispatch("S1", s)
  \/ Deliver
  \/ \E i \in Inst : Render(i)
  \/ \E i \in Inst : Commit(i)

SpecErr == Init /\ [][NextErr]_vars

\* The chain of two, each instance given store S2 by its props object 1 and
\* reading the store of the context otherwise; the second instance
\* memoises its child props (pure).  Store S1 changes to state 1.
WireCfg ==
  [ChainCfg EXCEPT !.pure = [i \in Inst |-> i = 2],
                   !.pstore = [i \in Inst |-> [wp \in Props |->
                                 IF wp = 1 THEN "S2" ELSE NoStore]]]

InitWire == InitWith(WireCfg)

NextWire ==
  \/ StoreDispatch("S1", 1)
  \/ Deliver
  \/ \E i \in Inst : \E wp \in Props : SetProps(i, wp)
  \/ \E i \in Inst : Render(i)
  \/ \E i \in Inst : Commit(i)

SpecWire == InitWire /\ [][NextWire]_vars

\* The chain of two where a notification loop runs to its end and every
\* render that can be made is made and committed; the selectors do not
\* throw.
NextLive ==
  \/ \E s \in IsoStates : StoreDispatch("S1", s)
  \/ Deliver
  \/ \E i \in Inst : Render(i)
  \/ \E i \in Inst : Commit(i)

Fairness ==
  /\ WF_vars(Deliver)
  /\ \A i \in ChainCfg.present : SF_vars(Render(i)) /\ SF_vars(Commit(i))

SpecLive == Init /\ [][NextLive]_vars /\ Fairness

\* ================================================================ claims

\* The committed output of instance i is the one of the store state now.
UpToDate(i) ==
  /\ refs[i].cpfsu = Undefined
  /\ ~refs[i].sched
  /\ refs[i].lcp = Selector(i, hooks[i].store, storeState[hooks[i].store],
                            refs[i].lwp)

\* C1 (as claimed): in the chain 1 -> 2 on one store, whenever the callback
\* of instance 2 is called, it is called by the cascade of instance 1's node
\* and instance 1 has no requested render that is not committed: its
\* committed output is the one of the store state instance 2 reads.
C1_TopDownOrdering ==
  (ev.op = "check" /\ ev.i = 2 /\ ~ev.stale)
    => (ev.via = hooks[1].sub /\ UpToDate(1) /\ queue[1] = NoUpdate)

\* C2 (as claimed): with 1 on context store S1, 2 on prop store S2 and 3
\* below 2 without a store prop, instance 3 resolves S2: the callbacks of 2
\* and 3 run only for changes of S2, the callback of 1 only for changes of
\* S1.
C2_StoreIsolation ==
  /\ (ev.op = "check" /\ ev.i \in {2, 3}) => ev.st = "S2"
  /\ (ev.op = "check" /\ ev.i = 1) => ev.st = "S1"
  /\ mounted[3] => hooks[3].store = "S2"

\* C2 (amended): instance 2 hands the context it received down unchanged,
\* so instance 3 resolves S1 below a node of instance 1.  A change of S2
\* calls only the callback of 2 and requests no render of 1 or 3; a change
\* of S1 calls the callbacks of 1 and 3 and never the one of 2.
C2_PropStorePassesContextThrough ==
  /\ (ev.op \in {"check", "skip"} /\ ev.st = "S2") => ev.i = 2
  /\ (ev.op \in {"check", "skip"} /\ ev.i = 2)
       => (ev.st = "S2" /\ ev.via = NoNode)
  /\ (ev.op \in {"check", "skip"} /\ ev.i = 3)
       => (ev.st = "S1" /\ ev.via[1] = 1)
  /\ mounted[2] => (hooks[2].store = "S2" /\ hooks[2].out = hooks[2].ctx)
  /\ mounted[3] => (hooks[3].store = "S1" /\ hooks[3].ctx[2][1] = 1)
  /\ \A n \in Range(storeSubs["S2"]) : n[1] = 2
  /\ \A n \in Range(storeSubs["S1"]) : n[1] = 1
  /\ (ev.tr.req > 0 /\ ev.i \in {1, 3}) => ev.st = "S1"
  /\ (ev.tr.req > 0 /\ ev.i = 2) => ev.st = "S2"

\* Instance 3 was called for a change of S1 and asked for a render, after
\* instance 2 committed the changed state of S2.
C2_Witness ==
  /\ ev.op = "check" /\ ev.i = 3 /\ ~ev.stale
  /\ ev.st = "S1" /\ ev.tr.req = 1
  /\ hooks[2].acp = Selector(2, "S2", 1, 0)

\* C3 (as claimed): a pass of a live subscription whose selector returns
\* the value its previous invocation returned requests no render and
\* cascades exactly once.
C3_ChangeGating ==
  (ev.op = "check" /\ ev.tr.sel /\ ev.tr.same)
    => (ev.tr.req = 0 /\ ev.tr.casc = 1)

\* C3 (amended): a pass of a live subscription whose selector returns the
\* value held in lastChildProps requests no render, and cascades exactly
\* once unless a render of the instance is scheduled, in which case it does
\* not cascade at all; a pass whose selector returns another value records
\* it as pending, marks a render scheduled, requests one render and does
\* not cascade.
C3_UnchangedPassGating ==
  (ev.op = "check" /\ ev.tr.sel)
    => IF ev.tr.eq
       THEN /\ ev.tr.req = 0
            /\ ev.tr.casc = (IF refs[ev.i].sched THEN 0 ELSE 1)
            /\ refs[ev.i].lcp = selHist[ev.i]
       ELSE /\ ev.tr.req = 1 /\ ev.tr.casc = 0
            /\ refs[ev.i].sched
            /\ refs[ev.i].cpfsu = selHist[ev.i]
            /\ refs[ev.i].lcp = selHist[ev.i]
            /\ queue[ev.i] = ev.tr.caught

\* An unchanged pass of instance 1 cascaded to instance 2.
C3_Witness ==
  /\ ev.op = "check" /\ ev.i = 1 /\ ev.tr.sel
  /\ ev.tr.eq /\ ev.tr.same /\ ev.tr.casc = 1
  /\ stack # <<>> /\ Head(stack).rest = <<hooks[2].sub>>

\* C4 (as claimed): when a store update has scheduled a render and a
\* render with new wrapper props commits, the child props the commit
\* records are the selector's value for the store state at the commit and
\* the new wrapper props.
C4_CommittedPropsAreLatest ==
  [][\A i \in Inst :
       (/\ ev'.op = "commit" /\ ev'.i = i /\ mounted'[i]
        /\ wip[i].on /\ ~wip[i].mount
        /\ refs[i].sched /\ wip[i].h.wp # refs[i].lwp
        /\ ~Throws(storeState[wip[i].h.store]))
         => /\ refs'[i].lwp = wip[i].h.wp
            /\ refs'[i].lcp = Selector(i, wip[i].h.store,
                                       storeState[wip[i].h.store],
                                       wip[i].h.wp)]_vars

\* C4 (amended): a render that finds a pending store-derived value while
\* its wrapper props differ from the committed ones recomputes the child
\* props from the store state it reads and the new wrapper props; the child
\* props of a render, and the committed lastChildProps, are always derived
\* from the wrapper props they are recorded with; and a commit records the
\* wrapper props and child props of the render it commits.
C4_NoStaleDerivation ==
  /\ \A i \in Inst :
       (/\ ev.op = "render" /\ ev.i = i /\ wip[i].on
        /\ refs[i].cpfsu # Undefined /\ wip[i].h.wp # refs[i].lwp)
         => wip[i].h.acp = Selector(i, wip[i].h.store,
                                    storeState[wip[i].h.store], wip[i].h.wp)
  /\ \A i \in Inst : wip[i].on => wip[i].h.acp[3] = wip[i].h.wp
  /\ \A i \in Inst : mounted[i] => hooks[i].acp[3] = hooks[i].wp
  /\ \A i \in Inst : refs[i].lcp # Undefined => refs[i].lcp[3] = refs[i].lwp
  /\ \A i \in Inst :
       (ev.op = "commit" /\ ev.i = i /\ mounted[i])
         => /\ refs[i].lwp = hooks[i].wp
            /\ ev.tr.req = 0 => refs[i].lcp = hooks[i].acp

\* A render found a pending value computed from other wrapper props.
C4_Witness ==
  /\ ev.op = "render" /\ wip[1].on /\ ~wip[1].mount
  /\ refs[1].cpfsu # Undefined /\ wip[1].h.wp # refs[1].lwp
  /\ refs[1].cpfsu # wip[1].h.acp

\* The payload the next render of instance i reads from useReducer.
NextPayload(i) ==
  IF queue[i] # NoUpdate THEN StoreStateUpdatesReducer(hooks[i].payload, queue[i])
  ELSE IF wip[i].on THEN wip[i].h.payload
  ELSE hooks[i].payload

\* The error a render throws for the payload p, NoErr if it throws none.
PayloadError(p) == IF p > NoErr THEN p ELSE NoErr

\* C5 (as claimed): a pass whose selector throws e does not throw itself,
\* and leaves a render of its instance requested that will throw exactly e.
C5_ErrorDeferral ==
  (ev.op = "check" /\ ev.tr.caught # NoErr)
    => (ev.threw = NoErr /\ queue[ev.i] = ev.tr.caught)

\* C6 (as claimed): the error the next render of a subscribed instance
\* throws from its update payload is the error of the most recent pass of
\* its subscription, and no error if that pass succeeded.
C6_LatestError ==
  \A i \in Inst :
    (mounted[i] /\ hooks[i].sub # NoNode /\ nodes[hooks[i].sub].slot)
      => PayloadError(NextPayload(i)) = nodes[hooks[i].sub].err

\* C7: a call of the callback of a subscription whose teardown has run
\* returns on entry: it reads no store state, calls no selector, requests
\* no render, starts no cascade and leaves every ref, every pending update
\* and every subscription as it was.
C7_StaleCallbacksInert ==
  [][(ev'.op = "check" /\ ev'.stale)
       => /\ ev'.tr = [NoTrace EXCEPT !.inert = TRUE]
          /\ refs' = refs /\ queue' = queue /\ selHist' = selHist
          /\ storeSubs' = storeSubs /\ hooks' = hooks /\ wip' = wip
          /\ Len(stack') <= Len(stack)]_vars

\* The callback of an unmounted instance was called by a loop that was
\* running when the instance was unmounted.
C7_Witness ==
  /\ ev.op = "check" /\ ev.stale /\ ev.tr.inert
  /\ ~mounted[ev.i]
  /\ refs[ev.i].lcp # Selector(ev.i, ev.st, storeState[ev.st], refs[ev.i].lwp)

\* The node n after its teardown has run in the world w.
TornDown(w, n) ==
  /\ w.nd[n].unsub /\ ~w.nd[n].attached /\ ~w.nd[n].slot
  /\ \A st \in Stores : n \notin Range(w.ss[st])
  /\ \A m \in Nodes : n \notin Range(w.nd[m].listeners)

\* The nodes whose subscription effect ran and whose teardown did not.
LiveNodes == {n \in Nodes : nodes[n].slot /\ ~nodes[n].unsub}

C9_NonSubscribingPassthrough ==
  \A i \in cfg.present :
    ~cfg.handles[i] =>
      /\ \A k \in 1..MaxNodes : ~nodes[<<i, k>>].made
      /\ hooks[i].sub = NoNode /\ wip[i].h.sub = NoNode
      /\ queue[i] = NoUpdate
      /\ refs[i].cpfsu = Undefined /\ ~refs[i].sched
      /\ ev.op \in {"check", "skip"} => ev.i # i
      /\ mounted[i] => hooks[i].out = hooks[i].ctx
      /\ wip[i].on => wip[i].h.out = wip[i].h.ctx
      /\ \A j \in cfg.present :
           (cfg.parentOf[j] = i /\ mounted[j] /\ cfg.handles[j])
             => /\ hooks[j].ctx[2][1] = cfg.parentOf[i]
                /\ nodes[hooks[j].sub].parent = hooks[j].ctx[2]

\* A store change reached instance 3 through the node of instance 1, past
\* the mounted instance 2 that does not handle state changes.
C9_Witness ==
  /\ ~cfg.handles[2] /\ mounted[2] /\ mounted[3]
  /\ ev.op = "check" /\ ev.i = 3 /\ ev.via = hooks[1].sub
  /\ ev.tr.req = 1

ResolvedAsClaimed(i, h) ==
  LET p == cfg.pstore[i][h.wp]
  IN IF p \in Stores
     THEN h.store = p /\ h.fromProps
     ELSE h.store = h.ctx[1] /\ h.store \in Stores /\ ~h.fromProps

C12_PendingClearedByConsumer ==
  [][\A i \in Inst :
       (/\ ev'.op = "commit" /\ ev'.i = i /\ wip[i].on
        /\ refs[i].cpfsu # Undefined
        /\ wip[i].h.acp # refs[i].cpfsu)
         => ~ev'.tr.capt]_vars

\* C13: no cascade is started by an instance while its renderIsScheduled
\* flag is set or a value is pending: a pass that finds changed output or
\* catches an error does not cascade, a pass that finds unchanged output
\* does not cascade while the flag is set, and the cascade of
\* captureWrapperProps starts after the flag and the pending value are
\* cleared.
C13_NoCascadeWhileScheduled ==
  /\ ~ev.tr.early
  /\ (ev.op = "check" /\ ev.tr.sel /\ ~ev.tr.eq) => ev.tr.casc = 0
  /\ (ev.op \in {"check", "commit"} /\ ev.tr.caught # NoErr)
       => ev.tr.casc = (IF ev.tr.capt THEN 1 ELSE 0)
  /\ (ev.op = "check" /\ ev.tr.sel /\ ev.tr.eq /\ refs[ev.i].sched)
       => ev.tr.casc = 0
  /\ (ev.op = "commit" /\ ev.tr.capt) => ev.tr.casc >= 1
  /\ (ev.op = "commit" /\ ev.tr.casc > 0 /\ ~ev.tr.sel)
       => (~refs[ev.i].sched /\ refs[ev.i].cpfsu = Undefined)

\* The commit of a scheduled render ran the deferred cascade, which is
\* about to call the callback of instance 2.
C13_Witness ==
  /\ ev.op = "commit" /\ ev.i = 1 /\ ev.tr.capt /\ ev.tr.casc = 1
  /\ stack # <<>> /\ Head(stack).via = hooks[1].sub
  /\ Head(stack).rest = <<hooks[2].sub>>

\* The refs a render of instance i reads: fresh ones on mount.
RefsRead(i) == IF mounted[i] THEN refs[i] ELSE InitRefs(props[i])

\* The pending value is the answer of a render of instance i.
PendingIsAnswer(i) ==
  RefsRead(i).cpfsu # Undefined /\ props[i] = RefsRead(i).lwp

\* C14: a render returns the pending store-update value as it is, without
\* calling the selector, if and only if a pending value exists and the owner
\* props are the ones of lastWrapperProps; in every other case its merged
\* props are the selector's result for the store state at the render and the
\* current owner props.
C14_RenderTimeMergedProps ==
  [][\A i \in Inst :
       (ev'.op = "render" /\ ev'.i = i /\ wip'[i].on)
         => IF PendingIsAnswer(i)
            THEN /\ ~ev'.tr.sel
                 /\ wip'[i].h.acp = RefsRead(i).cpfsu
            ELSE wip'[i].h.acp =
                   Selector(i, ev'.st, storeState[ev'.st], props[i])]_vars

\* C15: the commit of a mount or of a re-subscription leaves the callback
\* installed and the node attached and has run exactly one change-detection
\* pass; when the store state of that moment gives other child props than
\* the render did (or makes the selector throw), that pass requests a
\* render.  A commit that does not subscribe runs no pass.
C15_CatchUpPass ==
  [][\A i \in Inst :
       (/\ ev'.op = "commit" /\ ev'.i = i /\ ev'.threw = NoErr
        /\ wip[i].on /\ cfg.handles[i])
         => LET h1 == wip[i].h
                n  == h1.sub
                s  == storeState[h1.store]
                differ == IF Throws(s) THEN TRUE
                          ELSE Selector(i, h1.store, s, h1.wp) # h1.acp
            IN IF wip[i].resub
               THEN /\ nodes'[n].slot /\ nodes'[n].attached
                    /\ ~nodes'[n].unsub
                    /\ ev'.tr.pass = 1
                    /\ ev'.tr.req = (IF differ THEN 1 ELSE 0)
                    /\ differ => queue'[i] # NoUpdate /\ refs'[i].sched
               ELSE ev'.tr.pass = 0]_vars

\* The store changed between the render and the commit of a re-subscription
\* to another store, and the catch-up pass requested a render.
C15_Witness ==
  /\ ev.op = "commit" /\ ev.i = 1 /\ ev.tr.tdown = 1
  /\ ev.tr.pass = 1 /\ ev.tr.req = 1 /\ ~ev.tr.eq
  /\ hooks[1].store = "S2" /\ queue[1] # NoUpdate

\* The node n is called by nobody but the store st.
DirectlyOnStore(n, st) ==
  /\ n \in Range(storeSubs[st])
  /\ \A m \in Nodes : n \notin Range(nodes[m].listeners)
  /\ \A s \in Stores \ {st} : n \notin Range(storeSubs[s])

\* C16: a render of a mounted, state-handling instance that finds another
\* store, another came-from-props flag or another node in the context than
\* the render before it constructs a new node; a new node has no parent
\* when the store came from the props and the node of the context
\* otherwise; once subscribed, the node of an instance with a store from
\* its props is called by that store only.
C16_NodeConstruction ==
  [][\A i \in Inst :
       /\ (/\ ev'.op = "render" /\ ev'.i = i /\ wip'[i].on
           /\ cfg.handles[i])
            => LET h  == hooks[i]
                   h1 == wip'[i].h
                   changed == \/ h1.store # h.store
                              \/ h1.fromProps # h.fromProps
                              \/ h1.ctx[2] # h.ctx[2]
               IN /\ (mounted[i] /\ changed) => h1.sub # h.sub
                  /\ (~mounted[i] \/ h1.sub # h.sub)
                       => /\ h1.sub # NoNode
                          /\ ~nodes[h1.sub].made
                          /\ nodes'[h1.sub].made
                          /\ ~nodes'[h1.sub].attached
                          /\ nodes'[h1.sub].store = h1.store
                          /\ nodes'[h1.sub].parent =
                               (IF h1.fromProps THEN NoNode ELSE h1.ctx[2])
       /\ (/\ ev'.op = "commit" /\ ev'.i = i /\ ev'.threw = NoErr
           /\ cfg.handles[i] /\ hooks'[i].fromProps)
            => DirectlyOnStore(hooks[i].sub, hooks[i].store)']_vars

\* Instance 2 renders below an instance that has just taken its store from
\* its props: the store is the same, the node of the context is not, and
\* the new node has the parent of the Provider's context value.
C16_Witness ==
  /\ ev.op = "render" /\ ev.i = 2 /\ wip[2].on /\ ~wip[2].mount
  /\ wip[2].h.sub # hooks[2].sub
  /\ wip[2].h.store = hooks[2].store
  /\ hooks[2].ctx[2] = <<1, 1>> /\ wip[2].h.ctx[2] = NoNode
  /\ nodes[wip[2].h.sub].parent = NoNode
  /\ wip[1].on /\ wip[1].h.fromProps

\* The node of the nearest state-handling instance above i that took its
\* store from the context, or the node of the Provider's context value.
RECURSIVE NearestCtxNode(_)
NearestCtxNode(i) ==
  LET p == cfg.parentOf[i]
  IN IF p = 0 THEN cfg.rootCtx[2]
     ELSE IF cfg.handles[p] /\ ~hooks[p].fromProps THEN hooks[p].sub
     ELSE NearestCtxNode(p)

\* No instance above i is between a render and its commit.
AncestorsCommitted(i) ==
  \A a \in Inst : (a # i /\ Below(a, i)) => ~wip[a].on

\* C17: a mounted state-handling instance that took its store from the
\* context provides that store with its own node, one that took it from its
\* props provides the context value it read; and the parent of the node of
\* a context-sourced instance is the node of the nearest state-handling
\* context-sourced instance above it, or the Provider's.
C17_ChainMirrorsAncestors ==
  \A i \in Inst :
    (mounted[i] /\ cfg.handles[i])
      => /\ hooks[i].fromProps => hooks[i].out = hooks[i].ctx
         /\ ~hooks[i].fromProps
              => /\ hooks[i].out = <<hooks[i].store, hooks[i].sub>>
                 /\ hooks[i].store = hooks[i].ctx[1]
         /\ (~hooks[i].fromProps /\ AncestorsCommitted(i))
              => nodes[hooks[i].sub].parent = NearestCtxNode(i)

\* Instance 2, mounted below instance 1 when that read the context, has
\* been wired again to the Provider's node below the prop-sourced
\* instance 1.
C17_Witness ==
  /\ mounted[1] /\ mounted[2] /\ \A i \in Inst : ~wip[i].on
  /\ hooks[1].fromProps /\ ~hooks[2].fromProps
  /\ hooks[2].sub = <<2, 2>>
  /\ nodes[hooks[2].sub].parent = NoNode
  /\ nodes[hooks[2].sub].attached
  /\ hooks[1].out = RootCtx

\* The nodes of instance i that are attached.
AttachedNodes(i) == {n \in Nodes : n[1] = i /\ nodes[n].attached}

\* With the nodes nd and the store listeners ss, the node n is listed by
\* no store and by no node and holds no callback.
Detached(nd, ss, n) ==
  /\ ~nd[n].attached /\ ~nd[n].slot
  /\ \A st \in Stores : n \notin Range(ss[st])
  /\ \A m \in Nodes : n \notin Range(nd[m].listeners)

\* C18: an instance has at most one attached node, the one of its committed
\* render, and none when it is not mounted; the commit of a re-subscription
\* installs the new callback when no other node of the instance is attached
\* or holds a callback, and leaves the old node detached with an empty
\* slot; a pass requests a render only for the store of the committed
\* render.
C18_OneAttachedNode ==
  [][\A i \in Inst :
       /\ AttachedNodes(i)' \subseteq (IF mounted'[i] THEN {hooks'[i].sub}
                                       ELSE {})
       /\ (/\ ev'.op = "commit" /\ ev'.i = i /\ wip[i].on /\ wip[i].resub
           /\ mounted[i])
            => /\ ev'.tr.tdown = 1
               /\ ~ev'.tr.overlap
               /\ Detached(nodes', storeSubs', hooks[i].sub)
       /\ (ev'.op = "check" /\ ev'.i = i /\ ev'.tr.req > 0)
            => /\ mounted[i]
               /\ ev'.n = hooks[i].sub
               /\ ev'.st = hooks[i].store]_vars

\* The instance, switched from store S1 to store S2, is attached to S2
\* only, and S1 changes.
C18_Witness ==
  /\ ev.op = "dispatch" /\ ev.st = "S1" /\ stack = <<>>
  /\ mounted[1] /\ hooks[1].store = "S2" /\ hooks[1].sub = <<1, 2>>
  /\ AttachedNodes(1) = {<<1, 2>>}
  /\ storeSubs["S1"] = <<>> /\ storeSubs["S2"] = <<hooks[1].sub>>
  /\ storeState["S1"] = 1 /\ hooks[1].acp[1] = "S2"

\* The callback of the subscribed instance i has just run a pass.
PassOf(i) == ev.op = "check" /\ ev.i = i /\ ev.tr.pass = 1

\* Instance i has just called notifyNestedSubs.
CascadeFrom(i) ==
  ev.op \in {"check", "commit"} /\ ev.i = i /\ ev.tr.casc > 0

\* C19: when every requested render is made and committed and the selector
\* does not throw, every pass of an instance's callback is followed by a
\* cascade from that instance: in the pass itself when the child props are
\* unchanged and no render is scheduled, at a later commit otherwise.
C19_CascadeLiveness ==
  \A i \in ChainCfg.present :
    /\ [](PassOf(i) => (CascadeFrom(i) <=> (ev.tr.eq /\ ev.tr.req = 0
                                               /\ ~refs[i].sched)))
    /\ PassOf(i) ~> CascadeFrom(i)

\* A pass of instance 1 found the child props of the scheduled render and
\* left the cascade to its commit; instance 2 is listening.
C19_Witness ==
  /\ PassOf(1) /\ ~CascadeFrom(1)
  /\ ev.tr.eq /\ refs[1].sched /\ refs[1].cpfsu # Undefined
  /\ nodes[hooks[1].sub].listeners = <<hooks[2].sub>>

\* C20: a pass requests at most one render; a pass made while the flag of
\* a scheduled render is set, whose result is the pending value, requests
\* none and leaves the pending value as it is; and a pass made while a
\* requested render has not been made yet, whose result is the one of the
\* pass before it, requests none, so that consecutive passes with the same
\* new value request one render.
C20_RequestsDeduplicated ==
  [][\A i \in Inst :
       (ev'.op = "check" /\ ev'.i = i /\ ev'.tr.pass = 1)
         => /\ ev'.tr.req <= 1
            /\ (refs[i].sched /\ selHist'[i] = refs[i].cpfsu)
                 => /\ ev'.tr.req = 0
                    /\ refs'[i].cpfsu = refs[i].cpfsu
            /\ (queue[i] # NoUpdate /\ ev'.tr.same)
                 => ev'.tr.req = 0]_vars

\* C21: an instance that holds a pending store-update value has the flag of
\* a scheduled render set; with the flag not set there is no pending
\* value.
C21_PendingImpliesScheduled ==
  \A i \in Inst : refs[i].cpfsu # Undefined => refs[i].sched

\* The instance, subscribed again on store S2, holds a pending value of
\* that store after a changed pass.
C21_Witness ==
  /\ ev.op = "check" /\ ev.i = 1 /\ ev.tr.req = 1
  /\ mounted[1] /\ hooks[1].sub = <<1, 2>> /\ hooks[1].store = "S2"
  /\ refs[1].cpfsu # Undefined /\ refs[1].cpfsu[1] = "S2"
  /\ refs[1].sched

\* One instance that its props switch between the store of the context and
\* store S2, over a store S1 whose states include those the selector throws
\* on; the owner may unmount it.
NextTear ==
  \/ \E s \in States : StoreDispatch("S1", s)
  \/ Deliver
  \/ \E wp \in Props : SetProps(1, wp)
  \/ Render(1)
  \/ Commit(1)
  \/ Unmount(1)

SpecTear == InitWith(ResCfg(RootCtx)) /\ [][NextTear]_vars

\* The effect of instance i is torn down by the step: the instance leaves
\* the tree or commits another subscription.
TornDownByStep(i) ==
  /\ mounted[i] /\ hooks[i].sub # NoNode
  /\ ~mounted'[i] \/ hooks'[i].sub # hooks[i].sub

\* C22: the error a subscription has latched is the one its most recent
\* pass caught, none when that pass succeeded, and no other step changes
\* it; the teardown of a subscription raises exactly that error, and
\* whether it raises or returns the node is afterwards marked
\* unsubscribed, listed by no store and by no node and holds no callback.
C22_TeardownCompletes ==
  [][\A i \in Inst :
       /\ (ev'.op = "check" /\ ev'.i = i /\ ev'.tr.pass = 1)
            => nodes'[ev'.n].err = ev'.tr.caught
       /\ (/\ mounted[i] /\ hooks[i].sub # NoNode /\ ~TornDownByStep(i)
           /\ ~(ev'.op = "check" /\ ev'.i = i))
            => nodes'[hooks[i].sub].err = nodes[hooks[i].sub].err
       /\ TornDownByStep(i)
            => /\ ev'.tr.tdown >= 1
               /\ ev'.tr.tdown = 1
                    => ev'.tr.tthrew = nodes[hooks[i].sub].err
               /\ Detached(nodes', storeSubs', hooks[i].sub)
               /\ nodes'[hooks[i].sub].made => nodes'[hooks[i].sub].unsub]_vars

\* The commit of a re-subscription tore down a subscription that held the
\* error of its last pass: the teardown raised it, the instance left the
\* tree and no store lists a node.
C22_Witness ==
  /\ ev.op = "commit" /\ ev.i = 1 /\ ev.tr.tdown = 1
  /\ ev.tr.tthrew \in ErrStates
  /\ ~mounted[1]
  /\ \A st \in Stores : storeSubs[st] = <<>>
  /\ \A n \in Nodes : ~nodes[n].attached /\ ~nodes[n].slot

====
